---- MODULE Spec2Model ----
(***************************************************************************)
(* fortune-kind: random quote selection (fortune::get_quote), pattern      *)
(* search (fortune::search_fortunes), weighted file selection              *)
(* (random::get_random_file_weighted) and the entry glue (main).           *)
(*                                                                         *)
(* main resolves the corpus path and checks that it exists; get_quote and  *)
(* search_fortunes read FORTUNE_DIR themselves.  The model takes both to   *)
(* name the same location, and also lets the two library functions be      *)
(* called directly, as their doc examples do.                              *)
(*                                                                         *)
(* Text is a sequence of one-character strings.  Every character of the    *)
(* model's alphabet is ASCII, so str::len() (a byte count) is Len.         *)
(***************************************************************************)
EXTENDS Integers, Sequences, FiniteSets, TLC

\* ------------------------------------------------------------------ bounds
\* A full-size corpus file is built from at most MaxChunks chunks.
MaxChunks == 4
\* A directory holds at most MaxFiles files.
MaxFiles == 2
\* A search pattern has at most MaxPatLen characters.
MaxPatLen == 1

\* --------------------------------------------------------------- constants
\* const SHORT: usize = 150
SHORT == 150
\* the largest value of the u8 quote_size
U8_MAX == 255

NL == "\n"
\* the characters str::trim strips (White_Space), within the model's alphabet
Whitespace == {" ", NL}
\* the pattern of file.split("\n%\n")
Delimiter == <<NL, "%", NL>>

\* ------------------------------------------------------------------- text
\* str::trim_start
RECURSIVE TrimStart(_)
TrimStart(s) ==
    IF s = <<>> \/ Head(s) \notin Whitespace THEN s ELSE TrimStart(Tail(s))

\* str::trim_end
RECURSIVE TrimEnd(_)
TrimEnd(s) ==
    IF s = <<>> \/ s[Len(s)] \notin Whitespace THEN s
    ELSE TrimEnd(SubSeq(s, 1, Len(s) - 1))

\* str::trim
Trim(s) == TrimEnd(TrimStart(s))

\* str::contains with a &str pattern: some window of s equals p
Contains(s, p) ==
    \E i \in 0..(Len(s) - Len(p)) : SubSeq(s, i + 1, i + Len(p)) = p

\* does a match of the delimiter start at position i of s
DelimiterAt(s, i) ==
    /\ i + Len(Delimiter) - 1 <= Len(s)
    /\ SubSeq(s, i, i + Len(Delimiter) - 1) = Delimiter

\* str::split("\n%\n"): the spans between the non-overlapping matches of the
\* delimiter found left to right, the (possibly empty) remainder included.
RECURSIVE SplitFrom(_, _, _)
SplitFrom(s, i, cur) ==
    IF i > Len(s) THEN <<cur>>
    ELSE IF DelimiterAt(s, i)
         THEN <<cur>> \o SplitFrom(s, i + Len(Delimiter), <<>>)
         ELSE SplitFrom(s, i + 1, Append(cur, s[i]))

Split(s) == SplitFrom(s, 1, <<>>)

\* ------------------------------------------------------------ input space
\* The pieces corpus files are built from: words, blanks, a lone "%", and
\* the delimiter itself.
Chunk == { <<"a">>, <<"b", "b">>, <<" ">>, <<NL>>, <<"%">>, Delimiter }

RECURSIVE Flatten(_)
Flatten(cs) == IF cs = <<>> THEN <<>> ELSE Head(cs) \o Flatten(Tail(cs))

SeqsUpTo(S, n) == UNION { [1..k -> S] : k \in 0..n }

FilesUpTo(k) == { Flatten(cs) : cs \in SeqsUpTo(Chunk, k) }

PatternChar == {"a", "b", " ", NL, "%"}
Patterns == SeqsUpTo(PatternChar, MaxPatLen)

\* The unconstrained level, the levels at which target_length still changes
\* (150, 75, 37, 18, 9, 4, 2, 1, then 1 by the clamp), the last ordinary
\* level and the reserved one.
Levels == (0..9) \cup {U8_MAX - 1, U8_MAX}
AllLevels == 0..U8_MAX

\* A corpus is the location's kind and the files found there, in the
\* scanner's enumeration order.  "file": the location is one regular file;
\* "dir": a directory; "missing": nothing there; "denied": unreadable.
SmallCorpora ==
    { [location |-> "dir", files |-> fs] : fs \in SeqsUpTo(FilesUpTo(1), MaxFiles) }
SingleFileCorpora ==
    { [location |-> "file", files |-> <<f>>] : f \in FilesUpTo(MaxChunks) }
BadLocations ==
    { [location |-> l, files |-> <<>>] : l \in {"missing", "denied"} }

VARIABLES
    location,       \* the kind of the corpus location (FORTUNE_DIR)
    files,          \* the contents of the files at the location
    call,           \* the call made: its function, entry point and argument
    pc,             \* "start" before the call, "done" after it
    stdout,         \* the println! calls made so far
    stderr,         \* the messages written to standard error
    outcome,        \* how the call ended
    rng,            \* the draws taken from thread_rng, in order
    file,           \* get_quote's `file`: <<>> or <<contents>>
    quotes,         \* get_quote's `quotes`
    tmp,            \* get_quote's `tmp`
    target_length   \* get_quote's `target_length`: <<>> or <<value>>

vars == <<location, files, call, pc, stdout, stderr, outcome, rng,
          file, quotes, tmp, target_length>>

\* -------------------------------------------------------------- file module
\* file::get_file_sizes: the (size, path) pair of every candidate; a path is
\* the file's position in the enumeration.
get_file_sizes(loc, fs) ==
    IF loc = "missing" THEN [ok |-> FALSE, kind |-> "NotFound"]
    ELSE IF loc = "denied" THEN [ok |-> FALSE, kind |-> "PermissionDenied"]
    ELSE [ok |-> TRUE, val |-> [i \in 1..Len(fs) |-> <<Len(fs[i]), i>>]]

\* file::read_all_files: the contents of every candidate, in enumeration order
read_all_files(loc, fs) ==
    IF loc = "missing" THEN [ok |-> FALSE, kind |-> "NotFound"]
    ELSE IF loc = "denied" THEN [ok |-> FALSE, kind |-> "PermissionDenied"]
    ELSE [ok |-> TRUE, val |-> fs]

\* ------------------------------------------------------------ random module
\* rng.gen_range(0..i): the values random(i) can return (none when i = 0,
\* where gen_range panics)
random(i) == 0..(i - 1)

\* files.sort_unstable_by(size): every ordering of the candidates by
\* ascending size; the order among equal sizes is unspecified.
sort_unstable_by(cands) ==
    LET n == Len(cands)
        perms == { p \in [1..n -> 1..n] : \A i, j \in 1..n : p[i] = p[j] => i = j }
    IN { [i \in 1..n |-> cands[p[i]]] : p \in
           { q \in perms : \A i \in 1..(n - 1) : cands[q[i]][1] <= cands[q[i + 1]][1] } }

\* choose_weighted drawing a position whatever its weight
choose_weighted_unweighted(sorted) == 1..Len(sorted)

\* choose_weighted falling back to the first item when every weight is zero
choose_weighted_first_if_zero(sorted) ==
    IF { i \in 1..Len(sorted) : sorted[i][1] > 0 } = {}
    THEN { i \in 1..Len(sorted) : i = 1 }
    ELSE { i \in 1..Len(sorted) : sorted[i][1] > 0 }

\* files.choose_weighted(&mut rng, |item| item.0): the positions that can be
\* drawn; none when the slice is empty or every weight is zero
\* (WeightedError::NoItem, WeightedError::AllWeightsZero).
choose_weighted(sorted) == { i \in 1..Len(sorted) : sorted[i][1] > 0 }

\* random::get_random_file_weighted: every result the call can produce.
get_random_file_weighted(loc, fs) ==
    LET sizes == get_file_sizes(loc, fs) IN
    IF sizes.ok
    THEN UNION {
           IF choose_weighted(sorted) = {}
           THEN { [tag |-> "Err", kind |-> "Other",
                   msg |-> "No valid files found in {:?}"] }
           ELSE { [tag |-> "Ok", path |-> sorted[i][2], contents |-> fs[sorted[i][2]],
                   draw |-> [fn |-> "choose_weighted", i |-> Len(sorted), r |-> i - 1]]
                  : i \in choose_weighted(sorted) }
           : sorted \in sort_unstable_by(sizes.val) }
    ELSE IF sizes.kind = "NotFound"
         THEN { [tag |-> "Exit", code |-> 1,
                 msg |-> "Error: The path {:?} does not exist."] }
         ELSE { [tag |-> "Panic", msg |-> "Unexpected I/O Error: {}"] }

\* ----------------------------------------------------------- fortune module
\* One println! call: its format string and its argument.
Println(fmt, arg) == [fmt |-> fmt, arg |-> arg]

\* How a call ended and what it left behind.
Run(out, err, oc, draws, f, q, t, tl) ==
    [stdout |-> out, stderr |-> err, outcome |-> oc, rng |-> draws,
     file |-> f, quotes |-> q, tmp |-> t, target_length |-> tl]

\* parse_quotes without the filter on empty spans
parse_quotes_unfiltered(contents) == Split(contents)

\* let quotes = file.split("\n%\n").filter(|s| !s.trim().is_empty()).collect()
RECURSIVE non_empty(_)
non_empty(spans) ==
    IF spans = <<>> THEN <<>>
    ELSE (IF Trim(Head(spans)) /= <<>> THEN <<Head(spans)>> ELSE <<>>)
         \o non_empty(Tail(spans))

parse_quotes(contents) == non_empty(Split(contents))

\* for _ in 1..*n { target_length /= 2 }: k passes of the loop body.  A pass
\* over 0 leaves 0 (0 / 2 = 0), so the remaining passes are not unrolled.
RECURSIVE halve(_, _)
halve(t, k) == IF k <= 0 \/ t = 0 THEN t ELSE halve(t \div 2, k - 1)

\* target_length as the loop leaves it, before the clamp
halved_length(n) == IF n /= 1 THEN halve(SHORT, n - 1) ELSE SHORT

\* clamped_length with the clamp left out
clamped_length_no_floor(n) == halved_length(n)

\* target_length after `if target_length < 1 { target_length = 1 }`
clamped_length(n) == IF halved_length(n) < 1 THEN 1 ELSE halved_length(n)

\* for q in &quotes { if q.len() <= target_length { tmp.push(q) } }
RECURSIVE short_quotes(_, _)
short_quotes(qs, limit) ==
    IF qs = <<>> THEN <<>>
    ELSE (IF Len(Head(qs)) <= limit THEN <<Head(qs)>> ELSE <<>>)
         \o short_quotes(Tail(qs), limit)

\* println!("{}", seq[random::random(i)]): random panics on an empty range,
\* indexing panics past the end of seq.
print_random(seq, i, draws, f, q, t, tl) ==
    IF i = 0
    THEN { Run(<<>>, <<"cannot sample empty range">>, "panic",
               Append(draws, [fn |-> "random", i |-> i, r |-> 0]), f, q, t, tl) }
    ELSE { IF r < Len(seq)
           THEN Run(<<Println("{}", seq[r + 1])>>, <<>>, "returned",
                    Append(draws, [fn |-> "random", i |-> i, r |-> r]), f, q, t, tl)
           ELSE Run(<<>>, <<"index out of bounds">>, "panic",
                    Append(draws, [fn |-> "random", i |-> i, r |-> r]), f, q, t, tl)
           : r \in random(i) }

\* get_quote from `let quotes` on, with the selected file's contents and the
\* draw that selected it.
select_quote(contents, draw, n) ==
    LET chosen     == <<contents>>
        all_quotes == parse_quotes(contents)
    IN
    IF all_quotes = <<>>
    THEN { Run(<<>>, <<>>, "returned", <<draw>>, chosen, all_quotes, <<>>, <<>>) }
    ELSE IF n > 0
    THEN IF n = U8_MAX
         THEN { Run(<<Println("WE GET IT, YOU WANT A SHORT FORTUNE", <<>>)>>, <<>>,
                    "exit0", <<draw>>, chosen, all_quotes, <<>>, <<halved_length(n)>>) }
         ELSE LET len   == clamped_length(n)
                  short == short_quotes(all_quotes, len)
              IN IF short = <<>>
                 THEN print_random(all_quotes, Len(all_quotes), <<draw>>,
                                   chosen, all_quotes, short, <<len>>)
                 ELSE print_random(short, Len(short), <<draw>>,
                                   chosen, all_quotes, short, <<len>>)
    ELSE print_random(all_quotes, Len(all_quotes), <<draw>>,
                      chosen, all_quotes, <<>>, <<>>)

\* fortune::get_quote: every way the call can run.
get_quote_runs(loc, fs, n) ==
    UNION {
      IF res.tag = "Ok" THEN select_quote(res.contents, res.draw, n)
      ELSE IF res.tag = "Exit"
           THEN { Run(<<>>, <<res.msg>>, "exit1", <<>>, <<>>, <<>>, <<>>, <<>>) }
      ELSE IF res.tag = "Panic"
           THEN { Run(<<>>, <<res.msg>>, "panic", <<>>, <<>>, <<>>, <<>>, <<>>) }
      \* .unwrap() on the Err the selector returned
      ELSE { Run(<<>>, <<"called Result::unwrap() on an Err value", res.msg>>,
                 "panic", <<>>, <<>>, <<>>, <<>>, <<>>) }
      : res \in get_random_file_weighted(loc, fs) }

\* for fortune in file.split("\n%\n").filter(|x| x.contains(pattern))
\*     { println!("{}\n%", fortune.trim()) }
RECURSIVE print_matches(_, _)
print_matches(spans, p) ==
    IF spans = <<>> THEN <<>>
    ELSE (IF Contains(Head(spans), p)
          THEN <<Println("{}\n%", Trim(Head(spans)))>> ELSE <<>>)
         \o print_matches(Tail(spans), p)

search_file(contents, p) == print_matches(Split(contents), p)

RECURSIVE search_files(_, _)
search_files(fs, p) ==
    IF fs = <<>> THEN <<>>
    ELSE search_file(Head(fs), p) \o search_files(Tail(fs), p)

\* fortune::search_fortunes: the way the call runs.
search_fortunes_run(loc, fs, p) ==
    LET all == read_all_files(loc, fs) IN
    IF all.ok
    THEN Run(search_files(all.val, p), <<>>, "returned", <<>>, <<>>, <<>>, <<>>, <<>>)
    \* .unwrap() on the Err of read_all_files
    ELSE Run(<<>>, <<"called Result::unwrap() on an Err value", all.kind>>,
             "panic", <<>>, <<>>, <<>>, <<>>, <<>>)

\* ----------------------------------------------------------------- actions
Finish(c, run) ==
    /\ call' = c
    /\ pc' = "done"
    /\ stdout' = run.stdout
    /\ stderr' = run.stderr
    /\ outcome' = run.outcome
    /\ rng' = run.rng
    /\ file' = run.file
    /\ quotes' = run.quotes
    /\ tmp' = run.tmp
    /\ target_length' = run.target_length
    /\ UNCHANGED <<location, files>>

\* main returning Ok(()) ends the process with status 0
AfterMain(run) ==
    IF run.outcome = "returned" THEN [run EXCEPT !.outcome = "exit0"] ELSE run

\* a direct call of fortune::get_quote(&n)
get_quote(levels) ==
    /\ pc = "start"
    /\ \E n \in levels :
         \E run \in get_quote_runs(location, files, n) :
            Finish([fn |-> "get_quote", via |-> "api", quote_size |-> n], run)

\* a direct call of fortune::search_fortunes(p)
search_fortunes ==
    /\ pc = "start"
    /\ \E p \in Patterns :
         Finish([fn |-> "search_fortunes", via |-> "api", pattern |-> p],
                search_fortunes_run(location, files, p))

\* main: the path check, then search_fortunes with -m or get_quote with the
\* count of -s
main(levels) ==
    /\ pc = "start"
    /\ IF location = "missing"
       THEN Finish([fn |-> "none", via |-> "main"],
                   Run(<<>>, <<"Error: The fortune path {:?} was not found.",
                               "Hint: Check your FORTUNE_DIR environment variable or provide a valid path as an argument.">>,
                       "exit1", <<>>, <<>>, <<>>, <<>>, <<>>))
       ELSE \/ \E p \in Patterns :
                 Finish([fn |-> "search_fortunes", via |-> "main", pattern |-> p],
                        AfterMain(search_fortunes_run(location, files, p)))
            \/ \E n \in levels :
                 \E run \in get_quote_runs(location, files, n) :
                    Finish([fn |-> "get_quote", via |-> "main", quote_size |-> n],
                           AfterMain(run))

\* ----------------------------------------------------------- specifications
Start(corpora) ==
    /\ \E c \in corpora : location = c.location /\ files = c.files
    /\ call = [fn |-> "none", via |-> "none"]
    /\ pc = "start"
    /\ stdout = <<>>
    /\ stderr = <<>>
    /\ outcome = "running"
    /\ rng = <<>>
    /\ file = <<>>
    /\ quotes = <<>>
    /\ tmp = <<>>
    /\ target_length = <<>>

Init == Start(SingleFileCorpora \cup SmallCorpora \cup BadLocations)

Next == main(Levels) \/ get_quote(Levels) \/ search_fortunes

Spec == Init /\ [][Next]_vars

\* Every shortness level of the u8, over the small corpora.
InitLevels == Start(SmallCorpora \cup BadLocations)

NextLevels == main(AllLevels) \/ get_quote(AllLevels) \/ search_fortunes

SpecLevels == InitLevels /\ [][NextLevels]_vars

\* ------------------------------------------------------------ claim helpers
QuoteCall == pc = "done" /\ call.fn = "get_quote"
SearchCall == pc = "done" /\ call.fn = "search_fortunes"
LocationValid == location \in {"file", "dir"}
Range(seq) == { seq[i] : i \in 1..Len(seq) }
Max(a, b) == IF a >= b THEN a ELSE b

\* x >> k for 0 <= x < 2^31
ShiftRight(x, k) == IF k >= 31 THEN 0 ELSE x \div (2 ^ k)

\* The reference parse: split on the delimiter, trim every span, drop the
\* spans that become empty, keep the order.
RECURSIVE TrimmedNonEmpty(_)
TrimmedNonEmpty(spans) ==
    IF spans = <<>> THEN <<>>
    ELSE (IF Trim(Head(spans)) /= <<>> THEN <<Trim(Head(spans))>> ELSE <<>>)
         \o TrimmedNonEmpty(Tail(spans))

ReferenceParse(contents) == TrimmedNonEmpty(Split(contents))

HumorousMessage == Println("WE GET IT, YOU WANT A SHORT FORTUNE", <<>>)

EndedNormally == outcome \in {"returned", "exit0"}

\* ------------------------------------------------------------------ claims

\* C3: for every shortness level n in 1..254, the target length get_quote
\* computes is max(1, 150 >> (n-1)): whenever get_quote ran at such a level
\* on a file with at least one quote, target_length holds that value.
C3_TargetLength ==
    (QuoteCall /\ call.quote_size \in 1..(U8_MAX - 1) /\ quotes /= <<>>)
        => target_length = <<Max(1, ShiftRight(SHORT, call.quote_size - 1))>>

\* C3 witness: a level at which the halving reaches 0 and the clamp acts.
C3_Witness ==
    /\ QuoteCall
    /\ call.quote_size = 9
    /\ quotes /= <<>>
    /\ target_length = <<1>>

ZeroRecords(contents) ==
    \A i \in 1..Len(Split(contents)) : Trim(Split(contents)[i]) = <<>>

\* C10: at every level in 0..254, a selected file with zero quote records
\* makes get_quote print nothing and return normally; random is only called
\* with an argument >= 1 and its result indexes inside the sequence, so no
\* run of get_quote ends in the empty-range or the out-of-bounds panic.
C10_NoEmptyRange ==
    QuoteCall =>
        /\ (call.quote_size \in 0..(U8_MAX - 1) /\ file /= <<>> /\ ZeroRecords(file[1]))
              => (stdout = <<>> /\ stderr = <<>> /\ EndedNormally)
        /\ \A d \in Range(rng) : d.fn = "random" => (d.i >= 1 /\ d.r < d.i)
        /\ "cannot sample empty range" \notin Range(stderr)
        /\ "index out of bounds" \notin Range(stderr)

\* C10 witness: get_quote at level 7 on a file made of one delimiter.
C10_Witness ==
    /\ QuoteCall
    /\ call.quote_size = 7
    /\ file = <<Delimiter>>
    /\ stdout = <<>>
    /\ outcome = "returned"

C1_HumorousBeforeRandom ==
    (QuoteCall /\ call.quote_size = U8_MAX /\ LocationValid /\ file /= <<>>)
        => /\ stdout = <<HumorousMessage>>
           /\ outcome = "exit0"
           /\ rng = <<>>

\* C2 as stated: at a level n in 1..254 on a file with at least one quote
\* record, get_quote prints one record and does not panic; when some record
\* is no longer than target_length(n) after trimming, the printed record is
\* no longer than that; otherwise it is one of the file's records.
C2_ShortWhenAvailable ==
    (QuoteCall /\ call.quote_size \in 1..(U8_MAX - 1) /\ file /= <<>>
       /\ ReferenceParse(file[1]) /= <<>>)
        => LET records == ReferenceParse(file[1])
               limit   == Max(1, ShiftRight(SHORT, call.quote_size - 1))
           IN /\ EndedNormally
              /\ Len(stdout) = 1
              /\ Trim(stdout[1].arg) \in Range(records)
              /\ (\E rec \in Range(records) : Len(rec) <= limit)
                    => Len(Trim(stdout[1].arg)) <= limit

\* is a printed line one that carries a record
PrintsRecord(line) == line.fmt \in {"{}", "{}\n%"}

\* C4 as stated: in both modes no record that is empty or whitespace-only
\* after trimming is ever printed.
C4_NoBlankRecord ==
    \A line \in Range(stdout) : PrintsRecord(line) => Trim(line.arg) /= <<>>

\* what search_fortunes is to print: per file in enumeration order, the
\* quote records containing the pattern, in parse order
RECURSIVE RecordsContaining(_, _)
RecordsContaining(records, p) ==
    IF records = <<>> THEN <<>>
    ELSE (IF Contains(Head(records), p)
          THEN <<Println("{}\n%", Head(records))>> ELSE <<>>)
         \o RecordsContaining(Tail(records), p)

RECURSIVE ExpectedSearchOutput(_, _)
ExpectedSearchOutput(fs, p) ==
    IF fs = <<>> THEN <<>>
    ELSE RecordsContaining(ReferenceParse(Head(fs)), p)
         \o ExpectedSearchOutput(Tail(fs), p)

\* C5 as stated: search_fortunes prints exactly the quote records that
\* contain the pattern, each followed by a "%" line, in file enumeration
\* order and parse order, and no record that does not contain the pattern.
C5_SearchPrintsMatches ==
    (SearchCall /\ LocationValid)
        => /\ stdout = ExpectedSearchOutput(files, call.pattern)
           /\ \A line \in Range(stdout) : Contains(line.arg, call.pattern)

\* C7 as stated: with a missing location get_random_file_weighted returns an
\* error value of kind NotFound to its caller, and both modes end with an
\* error on standard error and a non-zero exit status, not a panic.
C7_NotFoundReturned ==
    (location = "missing" /\ (QuoteCall \/ SearchCall))
        => /\ \A res \in get_random_file_weighted(location, files) :
                res.tag = "Err" /\ res.kind = "NotFound"
           /\ outcome = "exit1"
           /\ stderr /= <<>>

\* C9 as stated: the quotes get_quote selects from are the reference parse
\* of the file, so whatever it prints has no leading or trailing whitespace.
C9_QuotesAreReferenceParse ==
    (QuoteCall /\ file /= <<>>)
        => /\ quotes = ReferenceParse(file[1])
           /\ \A line \in Range(stdout) :
                PrintsRecord(line) => Trim(line.arg) = line.arg

====
